---- MODULE Spec2Model ----
(***************************************************************************)
(* Model of weave-nn/.bin/timehash.py: generate_short_hash(length=6).      *)
(*                                                                         *)
(* Python integers are unbounded, so an integer is modelled as the         *)
(* big-endian sequence of its bytes (each 0..255); a string is the         *)
(* sequence of its characters.  The system clock is an environment         *)
(* variable that the function reads; callers choose the length.            *)
(***************************************************************************)
EXTENDS Integers, Sequences, FiniteSets

VARIABLES clock,   \* system clock: [sec |-> integer seconds, frac |-> sub-second part]
          ticks,   \* number of clock changes so far (bounds the run)
          prev,    \* the call before the last one
          last,    \* the last call of generate_short_hash
          stdout,  \* lines printed by the __main__ entry point
          status   \* "running", or the exit status of the script

vars == <<clock, ticks, prev, last, stdout, status>>

(* ---- bounds of the model ---- *)
ClockBytes == 6      \* clock seconds are kept below 256^ClockBytes
FracPerSec == 2      \* sub-second clock readings per second
MaxTicks == 2        \* clock changes per run
MaxLen == 8          \* requested lengths range over -MaxLen..MaxLen, and BigLen
BigLen == 100

(* ---- program constants ---- *)
DefaultLength == 6
NBytes == 5

(* ---- integers as big-endian byte sequences ---- *)

\* byte k of integer a, counted from the least significant byte (k = 0)
ByteAt(a, k) == IF k < Len(a) THEN a[Len(a) - k] ELSE 0

RECURSIVE BytesDown(_, _)
\* bytes k, k-1, .., 0 of a: most significant first
BytesDown(a, k) == IF k < 0 THEN << >> ELSE <<ByteAt(a, k)>> \o BytesDown(a, k - 1)

RECURSIVE BytesUp(_, _, _)
\* bytes k, k+1, .., n-1 of a: least significant first
BytesUp(a, k, n) == IF k >= n THEN << >> ELSE <<ByteAt(a, k)>> \o BytesUp(a, k + 1, n)

\* a widened to w bytes (leading zero bytes)
Widen(a, w) == BytesDown(a, w - 1)

RECURSIVE AddCarry(_, _, _, _)
\* bytes k.. of a + b + carry-in c, most significant first, preceded by the carry out
AddCarry(a, b, k, c) ==
  IF k = Len(a) THEN <<c>>
  ELSE LET s == ByteAt(a, k) + ByteAt(b, k) + c
       IN  Append(AddCarry(a, b, k + 1, s \div 256), s % 256)

\* a + b for b no wider than a, as <<carry out>> \o the bytes of the sum
IntAdd(a, b) == AddCarry(a, b, 0, 0)

RECURSIVE BitAnd(_, _)
\* bitwise AND of two non-negative numbers, bit by bit from the lowest
BitAnd(a, b) ==
  IF a = 0 \/ b = 0 THEN 0
  ELSE (a % 2) * (b % 2) + 2 * BitAnd(a \div 2, b \div 2)

\* bitwise AND of two bytes (a & 0xFF is a itself)
ByteAnd(a, b) == IF b = 255 THEN a ELSE BitAnd(a, b)

RECURSIVE AndDown(_, _, _)
\* bytes k, k-1, .., 0 of a & m
AndDown(a, m, k) ==
  IF k < 0 THEN << >>
  ELSE <<ByteAnd(ByteAt(a, k), ByteAt(m, k))>> \o AndDown(a, m, k - 1)

\* a & m for non-negative a and m: the result is no wider than the mask m
IntAnd(a, m) == AndDown(a, m, Len(m) - 1)

\* fault variant of MASK: a 40-bit mask, 0xFFFFFFFFFF
MASK40 == <<255, 255, 255, 255, 255>>

\* the literal 0xFFFFFFFFF
MASK == <<15, 255, 255, 255, 255>>

\* fault variant of Mask: the mask is left out
MaskNone(t) == t

\* seconds = int(time.time()) & 0xFFFFFFFFF
Mask(t) == IntAnd(t, MASK)

\* int(time.time()): the fractional part of the reading is dropped
IntTime(c) == c.sec

\* x needs no more than n bytes
Fits(x, n) == \A k \in n..(Len(x) - 1) : ByteAt(x, k) = 0

\* fault variant of ToBytes: byteorder='little'
ToBytesLittle(x, n) == [ok |-> Fits(x, n), bytes |-> BytesUp(x, 0, n)]

\* x.to_bytes(n, byteorder='big'); OverflowError when x needs more than n bytes
ToBytes(x, n) == [ok |-> Fits(x, n), bytes |-> BytesDown(x, n - 1)]

(* ---- base64 ---- *)

\* fault variant of UrlSafeAlphabet: the standard alphabet of b64encode
StdAlphabet ==
  << "A","B","C","D","E","F","G","H","I","J","K","L","M","N","O","P",
     "Q","R","S","T","U","V","W","X","Y","Z","a","b","c","d","e","f",
     "g","h","i","j","k","l","m","n","o","p","q","r","s","t","u","v",
     "w","x","y","z","0","1","2","3","4","5","6","7","8","9","+","/" >>

\* the URL-safe alphabet: '-' and '_' in place of '+' and '/'
UrlSafeAlphabet ==
  << "A","B","C","D","E","F","G","H","I","J","K","L","M","N","O","P",
     "Q","R","S","T","U","V","W","X","Y","Z","a","b","c","d","e","f",
     "g","h","i","j","k","l","m","n","o","p","q","r","s","t","u","v",
     "w","x","y","z","0","1","2","3","4","5","6","7","8","9","-","_" >>

Sym(v) == UrlSafeAlphabet[v + 1]

\* a full group of 3 bytes: 4 symbols
Group3(b1, b2, b3) ==
  LET v == b1 * 65536 + b2 * 256 + b3
  IN  << Sym(v \div 262144), Sym((v \div 4096) % 64), Sym((v \div 64) % 64), Sym(v % 64) >>

\* fault variant of Tail2: the partial third symbol is dropped
Tail2Short(b1, b2) ==
  LET v == b1 * 256 + b2
  IN  << Sym(v \div 1024), Sym((v \div 16) % 64), "=", "=" >>

\* the last 2 bytes: 3 symbols (the third carries 4 data bits and 2 zero bits) and one '='
Tail2(b1, b2) ==
  LET v == (b1 * 256 + b2) * 4
  IN  << Sym(v \div 4096), Sym((v \div 64) % 64), Sym(v % 64), "=" >>

\* the last byte alone: 2 symbols and '=='
Tail1(b1) ==
  LET v == b1 * 16
  IN  << Sym(v \div 64), Sym(v % 64), "=", "=" >>

RECURSIVE urlsafe_b64encode(_)
\* base64.urlsafe_b64encode(b).decode('ascii')
urlsafe_b64encode(b) ==
  IF Len(b) = 0 THEN << >>
  ELSE IF Len(b) = 1 THEN Tail1(b[1])
  ELSE IF Len(b) = 2 THEN Tail2(b[1], b[2])
  ELSE Group3(b[1], b[2], b[3]) \o urlsafe_b64encode(SubSeq(b, 4, Len(b)))

\* fault variant of rstrip: nothing is stripped
rstripNone(s, ch) == s

RECURSIVE rstrip(_, _)
\* s.rstrip(ch)
rstrip(s, ch) ==
  IF Len(s) > 0 /\ s[Len(s)] = ch THEN rstrip(SubSeq(s, 1, Len(s) - 1), ch) ELSE s

Min(a, b) == IF a < b THEN a ELSE b
Max(a, b) == IF a > b THEN a ELSE b

\* fault variants of Slice: padding to n characters; length 0 taken as "no limit";
\* an inclusive upper bound; a negative length taken as 0
SlicePad(s, n) ==
  IF n >= 0 THEN [i \in 1..n |-> IF i <= Len(s) THEN s[i] ELSE " "]
  ELSE SubSeq(s, 1, Max(0, Len(s) + n))

SliceFalsy(s, n) ==
  IF n = 0 THEN s
  ELSE IF n > 0 THEN SubSeq(s, 1, Min(n, Len(s)))
  ELSE SubSeq(s, 1, Max(0, Len(s) + n))

SliceInclusive(s, n) ==
  IF n >= 0 THEN SubSeq(s, 1, Min(n + 1, Len(s)))
  ELSE SubSeq(s, 1, Max(0, Len(s) + n + 1))

SliceClamp(s, n) == SubSeq(s, 1, Min(Max(n, 0), Len(s)))

\* s[:n]: the first n characters, all of s when n exceeds its length;
\* a negative n counts from the end (all but the last -n characters)
Slice(s, n) ==
  IF n >= 0 THEN SubSeq(s, 1, Min(n, Len(s)))
  ELSE SubSeq(s, 1, Max(0, Len(s) + n))

\* the body of generate_short_hash, for clock seconds t and requested length n
generate_short_hash(t, n) ==
  LET seconds == Mask(t)
      hash_bytes == ToBytes(seconds, NBytes)
  IN  IF ~hash_bytes.ok
      THEN [raised |-> "OverflowError", value |-> << >>]
      ELSE LET short_hash == rstrip(urlsafe_b64encode(hash_bytes.bytes), "=")
           IN  [raised |-> "none", value |-> Slice(short_hash, n)]

(* ---- the state machine ---- *)

NoCall == [called |-> FALSE]
CallRec(t, n) == [called |-> TRUE, t |-> t, n |-> n, ret |-> generate_short_hash(t, n)]

Lengths == ((-MaxLen)..MaxLen) \cup {BigLen}

\* clock readings a run may start from: the epoch, one second before the
\* 36-bit value wraps, and a present-day reading (1762214400)
StartSeconds ==
  { Widen(<<0>>, ClockBytes),
    Widen(<<15, 255, 255, 255, 255>>, ClockBytes),
    Widen(<<105, 9, 66, 0>>, ClockBytes) }

\* 2^36 seconds
WrapPeriod == <<16, 0, 0, 0, 0>>

Init ==
  /\ clock \in [sec : StartSeconds, frac : {0}]
  /\ ticks = 0
  /\ prev = NoCall
  /\ last = NoCall
  /\ stdout = << >>
  /\ status = "running"

\* the clock advances by one sub-second unit
Tick ==
  /\ ticks < MaxTicks
  /\ LET s == IntAdd(clock.sec, <<1>>)
     IN  IF clock.frac + 1 < FracPerSec
         THEN clock' = [clock EXCEPT !.frac = clock.frac + 1]
         ELSE /\ s[1] = 0
              /\ clock' = [sec |-> Tail(s), frac |-> 0]
  /\ ticks' = ticks + 1
  /\ UNCHANGED <<prev, last, stdout, status>>

\* the clock is stepped forward by 2^36 seconds (a synthetic or mocked clock)
Step ==
  /\ ticks < MaxTicks
  /\ LET s == IntAdd(clock.sec, WrapPeriod)
     IN  /\ s[1] = 0
         /\ clock' = [clock EXCEPT !.sec = Tail(s)]
  /\ ticks' = ticks + 1
  /\ UNCHANGED <<prev, last, stdout, status>>

\* a caller that imported the module invokes generate_short_hash(n)
Call(n) ==
  /\ status = "running"
  /\ prev' = last
  /\ last' = CallRec(IntTime(clock), n)
  /\ UNCHANGED <<clock, ticks, stdout, status>>

\* the module run as a script: print(generate_short_hash()), then the process ends
Main ==
  /\ status = "running"
  /\ ~last.called
  /\ prev' = last
  /\ last' = CallRec(IntTime(clock), DefaultLength)
  /\ IF last'.ret.raised = "none"
     THEN stdout' = <<last'.ret.value>> /\ status' = "exit0"
     ELSE stdout' = stdout /\ status' = "exit1"
  /\ UNCHANGED <<clock, ticks>>

Next ==
  \/ Tick
  \/ Step
  \/ \E n \in Lengths : Call(n)
  \/ Main

Spec == Init /\ [][Next]_vars

(* ---- properties ---- *)

Chars(s) == {s[i] : i \in 1..Len(s)}

IsPrefix(p, s) == Len(p) <= Len(s) /\ SubSeq(s, 1, Len(p)) = p

\* both recorded calls were made
TwoCalls == prev.called /\ last.called

\* s and t are equal modulo 2^36: bits 0..35 agree
SameMod36(s, t) ==
  /\ \A k \in 0..3 : ByteAt(s, k) = ByteAt(t, k)
  /\ ByteAt(s, 4) % 16 = ByteAt(t, 4) % 16

\* s and t agree modulo 2^36 in all but the 4 lowest bits: bits 4..35 agree
SameWindow(s, t) ==
  /\ ByteAt(s, 0) \div 16 = ByteAt(t, 0) \div 16
  /\ \A k \in 1..3 : ByteAt(s, k) = ByteAt(t, k)
  /\ ByteAt(s, 4) % 16 = ByteAt(t, 4) % 16

\* A-Z, a-z, 0-9, '-' and '_'
UrlSafeChars ==
  { "A","B","C","D","E","F","G","H","I","J","K","L","M","N","O","P","Q","R","S","T",
    "U","V","W","X","Y","Z","a","b","c","d","e","f","g","h","i","j","k","l","m","n",
    "o","p","q","r","s","t","u","v","w","x","y","z",
    "0","1","2","3","4","5","6","7","8","9","-","_" }

\* C1 as stated: for every timestamp and every requested length n >= 0 the call
\* returns exactly min(n, 8) characters (any n >= 8 yields 8 characters).
C1_LengthMin8 ==
  (last.called /\ last.n >= 0) =>
    /\ last.ret.raised = "none"
    /\ Len(last.ret.value) = Min(last.n, 8)

\* C1 amended: for every timestamp and every requested length n >= 0 the call
\* returns exactly min(n, 7) characters: the 5 bytes encode to 7 symbols and one
\* '=', which is stripped, so any n >= 7 yields the full 7 characters.
C1_LengthMin7 ==
  (last.called /\ last.n >= 0) =>
    /\ last.ret.raised = "none"
    /\ Len(last.ret.value) = Min(last.n, 7)

C1_Witness ==
  /\ last.called /\ last.n >= 8
  /\ last.ret.raised = "none" /\ Len(last.ret.value) = 7

\* C2 as stated: a negative length signals InvalidArgument and returns no string;
\* every non-negative length succeeds and returns a string.
C2_NegativeRaises ==
  last.called =>
    IF last.n < 0
    THEN last.ret.raised = "InvalidArgument"
    ELSE last.ret.raised = "none"

\* C2 amended: no length signals an error.  A negative length n returns the
\* stripped encoding without its last -n characters, that is its first
\* max(0, 7 + n) characters; every non-negative length returns a string too.
C2_NegativeSlices ==
  /\ last.called => last.ret.raised = "none"
  /\ (last.called /\ last.n < 0) => Len(last.ret.value) = Max(0, 7 + last.n)
  /\ (TwoCalls /\ prev.t = last.t /\ prev.n >= 7 /\ last.n < 0) =>
       IsPrefix(last.ret.value, prev.ret.value)

C2_Witness ==
  /\ TwoCalls /\ prev.t = last.t /\ prev.n >= 7 /\ last.n = -1
  /\ last.ret.raised = "none"
  /\ Len(last.ret.value) = 6
  /\ IsPrefix(last.ret.value, prev.ret.value)

\* C3: every character of the returned string is in the URL-safe base64
\* alphabet; the output never contains '+', '/' or '='.
C3_UrlSafeOutput ==
  last.called =>
    /\ Chars(last.ret.value) \subseteq UrlSafeChars
    /\ Chars(last.ret.value) \cap {"+", "/", "="} = {}

C3_Witness ==
  /\ last.called /\ last.n >= 8
  /\ "_" \in Chars(last.ret.value)
  /\ Len(last.ret.value) = 7

\* C4: for a timestamp whose masked value is 1 the stripped encoding is "AAAAAAE"
\* and generate_short_hash(6) returns "AAAAAA"; the length-6 output is the first 6
\* characters of the URL-safe base64 of the 5 big-endian bytes of the masked value
\* (compared here with the outputs of the Python code for the readings
\* 2^36 - 1 and 1762214400).
C4_Examples ==
  last.called =>
    /\ SameMod36(last.t, <<0, 0, 0, 0, 1>>) =>
         /\ last.n = 6 => last.ret.value = <<"A","A","A","A","A","A">>
         /\ last.n >= 7 => last.ret.value = <<"A","A","A","A","A","A","E">>
    /\ SameMod36(last.t, <<15, 255, 255, 255, 255>>) =>
         /\ last.n = 6 => last.ret.value = <<"D","_","_","_","_","_">>
         /\ last.n >= 7 => last.ret.value = <<"D","_","_","_","_","_","8">>
    /\ SameMod36(last.t, <<0, 105, 9, 66, 0>>) =>
         /\ last.n = 6 => last.ret.value = <<"A","G","k","J","Q","g">>
         /\ last.n >= 7 => last.ret.value = <<"A","G","k","J","Q","g","A">>

C4_Witness ==
  /\ TwoCalls
  /\ SameMod36(prev.t, <<0, 0, 0, 0, 1>>) /\ prev.t = last.t
  /\ prev.n = 7 /\ prev.ret.value = <<"A","A","A","A","A","A","E">>
  /\ last.n = 6 /\ last.ret.value = <<"A","A","A","A","A","A">>

\* C5: for the same timestamp generate_short_hash(8) and generate_short_hash(100)
\* return the same output, as do any two calls with lengths >= 8.
C5_LongLengthsAgree ==
  (TwoCalls /\ prev.t = last.t /\ prev.n >= 8 /\ last.n >= 8) =>
    prev.ret = last.ret

C5_Witness ==
  /\ TwoCalls /\ prev.t = last.t
  /\ prev.n = 8 /\ last.n = 100
  /\ prev.ret = last.ret /\ Len(last.ret.value) > 0

\* C6: generate_short_hash(0) returns the empty string for every timestamp.
C6_ZeroLengthEmpty ==
  (last.called /\ last.n = 0) =>
    /\ last.ret.raised = "none"
    /\ last.ret.value = << >>

C6_Witness ==
  /\ TwoCalls /\ prev.t = last.t
  /\ prev.n > 0 /\ Len(prev.ret.value) > 0
  /\ last.n = 0 /\ last.ret.value = << >>

\* C7: the output is a function of (timestamp mod 2^36, length) only: two calls
\* with the same length whose clock readings fall in the same second, or differ
\* by a multiple of 2^36 seconds, return identical results; and a call leaves the
\* clock as it found it.
C7_Deterministic ==
  /\ [](  (TwoCalls /\ prev.n = last.n /\ SameMod36(prev.t, last.t)) =>
            prev.ret = last.ret )
  /\ [][ (<<prev, last>>' # <<prev, last>>) => (clock' = clock /\ ticks' = ticks) ]_vars

C7_Witness ==
  /\ TwoCalls /\ prev.n = last.n /\ last.n >= 7
  /\ prev.t # last.t /\ SameMod36(prev.t, last.t)
  /\ prev.ret = last.ret /\ Len(last.ret.value) = 7

\* C8 as stated: with the default length 6, two calls whose timestamps differ
\* return the same output only if the timestamps are equal modulo 2^36.
C8_CollideOnlyMod36 ==
  (TwoCalls /\ prev.n = 6 /\ last.n = 6 /\ prev.t # last.t /\ prev.ret = last.ret) =>
    SameMod36(prev.t, last.t)

\* C8 amended: with the default length 6 the output carries bits 4..35 of the
\* masked timestamp only: two calls return the same output exactly when their
\* timestamps agree modulo 2^36 in all but the 4 lowest bits (the same 16-second
\* window); seconds in different windows less than 2^36 apart give different
\* outputs.
C8_CollideSameWindow ==
  (TwoCalls /\ prev.n = 6 /\ last.n = 6) =>
    (prev.ret = last.ret <=> SameWindow(prev.t, last.t))

C8_Witness ==
  /\ TwoCalls /\ prev.n = 6 /\ last.n = 6
  /\ ~SameMod36(prev.t, last.t)
  /\ prev.ret = last.ret /\ Len(last.ret.value) = 6

\* C9: when neither requested length truncates the stripped encoding (length at
\* least 7), two timestamps with different values modulo 2^36 return different
\* strings.
C9_FullLengthInjective ==
  (TwoCalls /\ prev.n >= 7 /\ last.n >= 7 /\ ~SameMod36(prev.t, last.t)) =>
    prev.ret.value # last.ret.value

C9_Witness ==
  /\ TwoCalls /\ prev.n = 7 /\ last.n >= 7
  /\ ~SameMod36(prev.t, last.t) /\ SameWindow(prev.t, last.t)
  /\ prev.ret.value # last.ret.value

\* C10: for every timestamp and every length >= 1 the first character of the
\* output is one of 'A', 'B', 'C', 'D' (the top 4 bits of the first byte are 0).
C10_FirstCharAtoD ==
  (last.called /\ last.n >= 1) =>
    /\ Len(last.ret.value) >= 1
    /\ last.ret.value[1] \in {"A", "B", "C", "D"}

C10_Witness ==
  /\ last.called /\ last.n >= 1
  /\ Len(last.ret.value) >= 1 /\ last.ret.value[1] = "D"

====
